---- MODULE Spec2Model ----
(***************************************************************************)
(* Model of src/model/osrs/furnace_bot.py: the furnace bot's crafting      *)
(* control loop (OSRSFurnaceBot.main_loop), its retry driver (__retry)     *)
(* and its action primitives (__click_on_furnace, __click_on_bank,         *)
(* __begin_crafting, __exit_bank).                                         *)
(*                                                                         *)
(* The controller is single-threaded; each action below is one step of it. *)
(* Time is the wall clock in whole seconds; it advances in time.sleep.     *)
(* The game (inventory snapshots, idle reports, object/text/image probes)  *)
(* is the environment: every probe result is a nondeterministic input.     *)
(***************************************************************************)
EXTENDS Integers, Sequences, FiniteSets, TLC

(* ---------------------------------------------------------------- bounds *)
\* running_time is drawn from 1..MaxRunningTime (minutes)
MaxRunningTime == 1
\* an inventory snapshot holds at most MaxInvLen records
MaxInvLen == 2

(* ------------------------------------------------------ program constants *)
GOLD_AMULET_U == 1673
SAPPHIRE_RING == 1637
GOLD_BAR == 2357
SAPPHIRE == 1607
\* retry_seconds: int = 15
retry_seconds == 15
\* available_slots = 28
inventory_size == 28
\* time.sleep(10) after the bank click
settle_delay == 10
\* self.win.inventory_slots[4]
deposit_slot == 4
\* self.win.cp_tabs[3]
inventory_tab == 3

GOLD_BAR_NAME == "Gold bar"
SAPPHIRE_NAME == "Sapphire"
GOLD_AMULET_U_NAME == "Gold amulet (u)"
SAPPHIRE_RING_NAME == "Sapphire ring"

\* use_mould = True
use_mould == TRUE

(* ------------------------------------------------------------ data model *)
\* Python's None / an optional value: the empty sequence or a one-element one
None == << >>
Some(x) == << x >>

Item(name, id) == [name |-> name, id |-> id]

\* CraftItem.__init_materials
init_materials(item) ==
    IF item.id = GOLD_AMULET_U THEN << Item(GOLD_BAR_NAME, GOLD_BAR) >>
    ELSE IF item.id = SAPPHIRE_RING
         THEN << Item(GOLD_BAR_NAME, GOLD_BAR), Item(SAPPHIRE_NAME, SAPPHIRE) >>
         ELSE << >>

\* CraftItem.__init__
CraftItem(item) == [item |-> item, materials |-> init_materials(item)]

\* OSRSFurnaceBot.__init_craft_item
init_craft_item(item_name) ==
    IF item_name = GOLD_AMULET_U_NAME
    THEN Some(CraftItem(Item(GOLD_AMULET_U_NAME, GOLD_AMULET_U)))
    ELSE IF item_name = SAPPHIRE_RING_NAME
         THEN Some(CraftItem(Item(SAPPHIRE_RING_NAME, SAPPHIRE_RING)))
         ELSE None

\* the dropdown's values (create_options)
CraftItemNames == {GOLD_AMULET_U_NAME, SAPPHIRE_RING_NAME}

(* ----------------------------------------------------------------- state *)
VARIABLES
    running_time,           \* self.running_time (minutes)
    craft_item,             \* self.craft_item: None or Some(CraftItem)
    options_set,            \* self.options_set
    options,                \* the dictionary of the last save_options call
    save_result,            \* how that call ended; "" before the first call
    pc,                     \* the controller's position in main_loop
    state,                  \* main_loop's phase
    iter_state,             \* the phase when the loop condition last held
    last_craft_item_index,  \* the designated inventory slot
    now,                    \* time.time()
    start_time,             \* main_loop's start_time
    end_time,               \* main_loop's end_time (seconds)
    last_item_id,           \* None or Some(id), from this iteration's snapshot
    target_seen,            \* a snapshot taken outside the bank phase, since
                            \* the last bank-phase iteration began, showed
                            \* the target item id in the designated slot
    mouse,                  \* where the pointer is: <<kind, n>>
    found_obj,              \* furnace_obj / bank_obj / craft_btn
    prim_ret,               \* the value a returned action primitive gave
    prim_mark,              \* Len(trace) when the running primitive was called
    mat_i,                  \* the bank phase's position in craft_item.materials
    r_start,                \* __retry's start_time
    r_log,                  \* the running __retry's calls in order: each
                            \* action_func result, "on_retry" per on_retry_func
    r_ret,                  \* the value the last __retry returned
    trace,                  \* what this iteration did, in order
    logout_calls,           \* self.logout() calls of the run
    stop_calls,             \* self.stop() calls of the run
    progress                \* last update_progress argument, <<num, den>>

cfg == << running_time, craft_item, options_set, options, save_result >>
loopv == << state, iter_state, last_craft_item_index, start_time, end_time,
           last_item_id, target_seen >>
primv == << found_obj, prim_ret, prim_mark, mat_i >>
retryv == << r_start, r_log, r_ret >>
hostv == << logout_calls, stop_calls, progress >>
vars == << cfg, pc, loopv, now, mouse, primv, retryv, trace, hostv >>

\* an event of the trace: <<what, target kind, target number>>
Ev(what, kind, n) == << what, kind, n >>
Click == Ev("click", mouse[1], mouse[2])

\* the wall clock after time.sleep(n): n seconds later; the other calls
\* (probes, clicks, API queries) return well within a second
AfterSleep(n) == { now + n }

\* Python truthiness of the values the probes return
Truthy(v) == v \notin {"None", "False"}


Min(S) == CHOOSE x \in S : \A y \in S : x <= y

(* ------------------------------------------------------ the environment *)
\* object handles get_nearest_tag can return
Objects == {"o1"}
\* what the find probes (get_nearest_tag) and the hover probes
\* (mouseover_text) can return
FindResults == {"None"} \cup Objects
HoverResults == {"False", "True"}

\* slot indices and item ids that inventory snapshots are built from; 0 is
\* a valid item id of the game
SlotSample == {4, 12, 26}
IdSample == {0, GOLD_AMULET_U, SAPPHIRE_RING}
InvRecord == [index : SlotSample, id : IdSample]

\* MorgHTTPSocket.get_inv(): records in ascending slot order, one per
\* occupied slot
Snapshots ==
    { inv \in UNION { [1..n -> InvRecord] : n \in 0..MaxInvLen } :
        \A i \in 1..Len(inv) : \A j \in 1..Len(inv) :
            i < j => inv[i].index < inv[j].index }

(* ---------------------------------------------------------- save_options *)
\* self.running_time = 30 (__init__)
default_running_time == 30

RunningTimes == 1..MaxRunningTime

\* the option keys the host can pass: the two of create_options and one
\* that save_options does not know
KnownKeys == {"running_time", "craft_item"}
OptionKeys == KnownKeys \cup {"unknown_option"}
\* the values it can pass: minutes, and item names, one of them not in the
\* catalog
SuppliedTimes == RunningTimes \cup {default_running_time}
SuppliedNames == CraftItemNames \cup {"Gold ring"}
OptionItems ==
    { << "running_time", t >> : t \in SuppliedTimes }
        \cup { << "craft_item", n >> : n \in SuppliedNames }
        \cup { << "unknown_option", 0 >> }

\* an options dict: its items in iteration order, no key twice
OptionDicts ==
    { d \in UNION { [1..n -> OptionItems] : n \in 0..Cardinality(OptionKeys) } :
        \A i \in DOMAIN d : \A j \in DOMAIN d : i < j => d[i][1] # d[j][1] }

\* the keys of an options dict
Keys(d) == { d[i][1] : i \in DOMAIN d }
\* options[key]
Value(d, key) == d[CHOOSE i \in DOMAIN d : d[i][1] = key][2]

\* a variant that logs the unknown option and returns without clearing the
\* flag
unknown_option_warned(s) == [s EXCEPT !.save_result = "unknown"]

\* lines 114-118: an unknown option clears options_set and returns
unknown_option(s) == [s EXCEPT !.options_set = FALSE, !.save_result = "unknown"]

\* lines 119-122: line 120 reads self.craft_item.item, which raises
\* AttributeError when craft_item is None; line 122 is then not reached
options_unpacked(s) ==
    IF s.craft_item = None
    THEN [s EXCEPT !.save_result = "AttributeError"]
    ELSE [s EXCEPT !.options_set = TRUE, !.save_result = "return"]

\* lines 109-122, from the i-th item of the dict on; s holds the bot's
\* fields
RECURSIVE save_options_from(_, _, _)
save_options_from(opts, i, s) ==
    IF i > Len(opts)
    THEN options_unpacked(s)
    ELSE LET option == opts[i][1] IN
         IF option = "running_time"
         THEN save_options_from(opts, i + 1, [s EXCEPT !.running_time = opts[i][2]])
         ELSE IF option = "craft_item"
              THEN save_options_from(opts, i + 1,
                        [s EXCEPT !.craft_item = init_craft_item(opts[i][2])])
              ELSE unknown_option(s)

(* ---------------------------------------------------- host bot lifecycle *)
\* Bot.stop(), called on the controller's own thread, ends that thread: the
\* statement after self.stop() is not executed
stop_halts == TRUE

\* a variant of __logout that stops without logging the session out
logout_forgotten(tr, next) ==
    /\ UNCHANGED logout_calls
    /\ stop_calls' = stop_calls + 1
    /\ trace' = tr \o << Ev("stop", "", 0) >>
    /\ pc' = IF stop_halts THEN "stopped" ELSE next

\* OSRSFurnaceBot.__logout(msg), followed by the code at `next`,
\* after the events `tr` of this iteration
logout(tr, next) ==
    /\ logout_calls' = logout_calls + 1
    /\ stop_calls' = stop_calls + 1
    /\ trace' = tr \o << Ev("logout", "", 0), Ev("stop", "", 0) >>
    /\ pc' = IF stop_halts THEN "stopped" ELSE next

(* ------------------------------------------------------------- main_loop *)
\* a variant that does not reserve the mould's slot
designated_slot_no_mould(ci) == inventory_size \div Len(ci.materials) - 1

\* lines 150-158: the designated slot
designated_slot(ci) ==
    LET available_slots == IF use_mould THEN inventory_size - 1 ELSE inventory_size
        max_craftable == available_slots \div Len(ci.materials)
    IN  max_craftable - 1

\* lines 140-162: select the inventory tab, set the phase, the designated
\* slot and the time budget
main_loop_start ==
    /\ pc = "start"
    /\ options_set
    /\ craft_item # None
    /\ Len(craft_item[1].materials) > 0
    /\ mouse' = << "cp_tabs", inventory_tab >>
    /\ trace' = << Ev("click", "cp_tabs", inventory_tab) >>
    /\ state' = "pre-craft"
    /\ iter_state' = "pre-craft"
    /\ last_craft_item_index' = designated_slot(craft_item[1])
    /\ start_time' = now
    /\ end_time' = running_time * 60
    /\ pc' = "loop"
    /\ UNCHANGED << cfg, now, last_item_id, target_seen, primv, retryv, hostv >>

\* line 163: while time.time() - start_time < end_time
loop_continues == now - start_time < end_time

main_loop_while ==
    /\ pc = "loop"
    /\ IF loop_continues
       THEN /\ pc' = "get_inv"
            /\ trace' = << >>
            /\ iter_state' = state
            /\ target_seen' = IF state = "bank" THEN FALSE ELSE target_seen
       ELSE /\ pc' = "finish"
            /\ UNCHANGED << trace, iter_state, target_seen >>
    /\ UNCHANGED << cfg, state, last_craft_item_index, start_time, end_time,
                    last_item_id, now, mouse, primv, retryv, hostv >>

\* line 169: next((item for item in inv if item["index"] == idx), None)
last_item_of(inv, idx) ==
    LET S == { i \in 1..Len(inv) : inv[i].index = idx }
    IN  IF S = {} THEN None ELSE Some(inv[Min(S)])

\* line 170: last_item["id"] if last_item else None
last_item_id_of(inv, idx) ==
    LET last_item == last_item_of(inv, idx)
    IN  IF last_item # None THEN Some(last_item[1].id) ELSE None

\* a variant that never takes the "Last item not found" branch
last_item_found_skipped(id) == TRUE

\* line 170: the truth value of `last_item_id := ...` (None and 0 are falsy)
last_item_found(id) == id # None /\ id[1] # 0

\* lines 168-173
get_inv ==
    /\ pc = "get_inv"
    /\ \E inv \in Snapshots :
        LET id == last_item_id_of(inv, last_craft_item_index) IN
        /\ last_item_id' = id
        /\ target_seen' = IF state = "bank" THEN target_seen
                          ELSE target_seen \/ id = Some(craft_item[1].item.id)
        /\ IF last_item_found(id)
           THEN /\ pc' = "branch"
                /\ trace' = Append(trace, Ev("get_inv", "", 0))
                /\ UNCHANGED << logout_calls, stop_calls >>
           ELSE logout(Append(trace, Ev("get_inv", "", 0)), "branch")
    /\ UNCHANGED << cfg, state, iter_state, last_craft_item_index, start_time,
                    end_time, now, mouse, primv, retryv, progress >>


(* ---------------------------------------------------------- retry driver *)
\* the positions at which a __retry call is running, by call site
FindPcs == {"furnace_find", "bank_find"}
HoverPcs == {"furnace_hover", "bank_hover", "craft_hover"}
RetryPcs == FindPcs \cup HoverPcs

\* where each __retry call returns to
RetPc(p) ==
    CASE p = "furnace_find" -> "furnace_find_ret"
      [] p = "furnace_hover" -> "furnace_hover_ret"
      [] p = "bank_find" -> "bank_find_ret"
      [] p = "bank_hover" -> "bank_hover_ret"
      [] p = "craft_hover" -> "craft_hover_ret"
RetPcs == { RetPc(p) : p \in RetryPcs }

\* on_retry_func is passed at lines 265 and 285 only
has_on_retry(p) == p \in FindPcs

\* the values action_func can return at each call site
ProbeResults(p) == IF p \in FindPcs THEN FindResults ELSE HoverResults

probes(log) == Cardinality({ i \in DOMAIN log : log[i] # "on_retry" })
retries(log) == Cardinality({ i \in DOMAIN log : log[i] = "on_retry" })

\* line 251: start_time = time.time(), entering __retry from call site p
StartRetry(p) ==
    /\ r_start' = now
    /\ r_log' = << >>
    /\ r_ret' = "None"
    /\ pc' = p

\* the frame of a __retry call is gone once its result was used
EndRetry ==
    /\ r_start' = 0
    /\ r_log' = << >>
    /\ r_ret' = "None"

\* line 252: while time.time() - start_time < retry_seconds
retry_continues == now - r_start < retry_seconds

\* a variant that tests the result against None instead of its truth value
retry_returns_not_none(v) == v # "None"

\* lines 253-254: if ret := action_func(): return ret
retry_returns(v) == Truthy(v)

\* a variant that never calls on_retry_func
retry_after_failure_silent(p, log) == log

\* lines 255-256: the calls made after an unsuccessful action_func call
retry_after_failure(p, log) ==
    IF has_on_retry(p) THEN Append(log, "on_retry") ELSE log

\* lines 250-258: one evaluation of the loop condition and, when it holds,
\* one pass through the loop body
retry ==
    /\ pc \in RetryPcs
    /\ IF retry_continues
       THEN \E v \in ProbeResults(pc) :
            \* the hover probes move the pointer onto the object first
            /\ mouse' = IF pc \in HoverPcs THEN << found_obj, 0 >> ELSE mouse
            /\ IF retry_returns(v)
               THEN /\ r_log' = Append(r_log, v)
                    /\ r_ret' = v
                    /\ pc' = RetPc(pc)
                    /\ trace' = Append(trace, Ev("retry_ret", v, 0))
                    /\ UNCHANGED now
               ELSE /\ r_log' = retry_after_failure(pc, Append(r_log, v))
                    /\ now' \in AfterSleep(1)
                    /\ UNCHANGED << pc, r_ret, trace >>
       ELSE /\ r_ret' = "None"
            /\ pc' = RetPc(pc)
            /\ trace' = Append(trace, Ev("retry_ret", "None", 0))
            /\ UNCHANGED << r_log, now, mouse >>
    /\ UNCHANGED << cfg, loopv, primv, r_start, hostv >>

(* ------------------------------------------------------ action primitives *)
\* a variant that clicks whatever the hover-text retry returned
hover_unverified(ret) == TRUE

\* lines 271-276 / 291-296 / 317-322: click when the hover text was verified
hover_verified(ret) == Truthy(ret)

\* the code after each __retry call of __click_on_furnace / __click_on_bank,
\* which run at find_ret / hover_ret and return to main_loop at `ret`
click_on(find_ret, hover, hover_ret, ret) ==
    \/ /\ pc = find_ret
       /\ IF Truthy(r_ret)
          THEN /\ found_obj' = r_ret
               /\ StartRetry(hover)
               /\ UNCHANGED << prim_ret, trace >>
          ELSE /\ prim_ret' = FALSE
               /\ pc' = ret
               /\ trace' = Append(trace, Ev("return", "False", 0))
               /\ EndRetry
               /\ UNCHANGED found_obj
       /\ UNCHANGED << cfg, loopv, now, mouse, prim_mark, mat_i, hostv >>
    \/ /\ pc = hover_ret
       /\ IF hover_verified(r_ret)
          THEN /\ prim_ret' = TRUE
               /\ trace' = trace \o << Click, Ev("return", "True", 0) >>
          ELSE /\ prim_ret' = FALSE
               /\ trace' = Append(trace, Ev("return", "False", 0))
       /\ pc' = ret
       /\ found_obj' = "None"
       /\ EndRetry
       /\ UNCHANGED << cfg, loopv, now, mouse, prim_mark, mat_i, hostv >>

\* lines 260-278, after the first __retry was entered
click_on_furnace ==
    click_on("furnace_find_ret", "furnace_hover", "furnace_hover_ret", "furnace_ret")

\* lines 280-298, after the first __retry was entered
click_on_bank ==
    click_on("bank_find_ret", "bank_hover", "bank_hover_ret", "bank_ret")

\* lines 308-325
begin_crafting ==
    \/ /\ pc = "begin_crafting"
       /\ prim_mark' = Len(trace) + 1
       /\ \E craft_btn \in FindResults :
            IF Truthy(craft_btn)
            THEN /\ found_obj' = craft_btn
                 /\ StartRetry("craft_hover")
                 /\ trace' = Append(trace, Ev("begin_crafting", "", 0))
                 /\ UNCHANGED prim_ret
            ELSE /\ prim_ret' = FALSE
                 /\ pc' = "craft_ret"
                 /\ trace' = trace \o << Ev("begin_crafting", "", 0),
                                         Ev("return", "False", 0) >>
                 /\ UNCHANGED << found_obj, retryv >>
       /\ UNCHANGED << cfg, loopv, now, mouse, mat_i, hostv >>
    \/ /\ pc = "craft_hover_ret"
       /\ IF hover_verified(r_ret)
          THEN /\ prim_ret' = TRUE
               /\ trace' = trace \o << Click, Ev("return", "True", 0) >>
          ELSE /\ prim_ret' = FALSE
               /\ trace' = Append(trace, Ev("return", "False", 0))
       /\ pc' = "craft_ret"
       /\ found_obj' = "None"
       /\ EndRetry
       /\ UNCHANGED << cfg, loopv, now, mouse, prim_mark, mat_i, hostv >>

\* lines 300-306: the pointer and the events after __exit_bank
close_bank_btn == << "close_bank_btn", 0 >>
exit_bank(tr) ==
    tr \o << Ev("exit_bank", "", 0), Ev("click", close_bank_btn[1], close_bank_btn[2]) >>


(* ------------------------------------------------- main_loop: the phases *)
target_id == craft_item[1].item.id

\* a variant that compares with the first material's id instead of the
\* crafted item's
crafting_complete_material(id) == id = Some(craft_item[1].materials[1].id)

\* lines 176 and 186: last_item_id == self.craft_item.item.id
crafting_complete(id) == id = Some(target_id)

\* a variant whose early exit leaves the phase at pre-craft
pre_craft_exit_keeps_phase ==
    /\ pc = "branch"
    /\ state = "pre-craft"
    /\ IF crafting_complete(last_item_id)
       THEN /\ pc' = "loop"
            /\ UNCHANGED << state, trace, prim_mark, retryv >>
       ELSE /\ trace' = Append(trace, Ev("click_on_furnace", "", 0))
            /\ prim_mark' = Len(trace) + 1
            /\ StartRetry("furnace_find")
            /\ UNCHANGED state
    /\ UNCHANGED << cfg, iter_state, last_craft_item_index, start_time, end_time,
                    last_item_id, target_seen, now, mouse, found_obj, prim_ret, mat_i, hostv >>

\* lines 175-181: the pre-craft branch up to the __click_on_furnace call
pre_craft ==
    /\ pc = "branch"
    /\ state = "pre-craft"
    /\ IF crafting_complete(last_item_id)
       THEN /\ state' = "post-craft"
            \* continue: back to the loop condition
            /\ pc' = "loop"
            /\ UNCHANGED << trace, prim_mark, retryv >>
       ELSE /\ trace' = Append(trace, Ev("click_on_furnace", "", 0))
            /\ prim_mark' = Len(trace) + 1
            /\ StartRetry("furnace_find")
            /\ UNCHANGED state
    /\ UNCHANGED << cfg, iter_state, last_craft_item_index, start_time, end_time,
                    last_item_id, target_seen, now, mouse, found_obj, prim_ret, mat_i, hostv >>

\* a variant comparing the primitive's result with None instead of False
primitive_failed_is_none(ret) == FALSE

\* line 181: if self.__click_on_furnace() is False
primitive_failed(ret) == ret = FALSE

\* lines 181-182: back from __click_on_furnace
furnace_ret ==
    /\ pc = "furnace_ret"
    /\ IF primitive_failed(prim_ret)
       THEN logout(trace, "begin_crafting")
       ELSE /\ pc' = "begin_crafting"
            /\ UNCHANGED << trace, logout_calls, stop_calls >>
    /\ UNCHANGED << cfg, loopv, now, mouse, primv, retryv, progress >>

\* lines 183-184: back from __begin_crafting
craft_ret ==
    /\ pc = "craft_ret"
    /\ state' = IF prim_ret THEN "craft" ELSE state
    /\ pc' = "sleep"
    /\ UNCHANGED << cfg, iter_state, last_craft_item_index, start_time, end_time,
                    last_item_id, target_seen, now, mouse, primv, retryv, trace, hostv >>

\* a variant of lines 185-193 that moves an idle player to post-craft
craft_idle_to_post_craft ==
    /\ pc = "branch"
    /\ state = "craft"
    /\ IF crafting_complete(last_item_id)
       THEN /\ state' = "post-craft"
            /\ UNCHANGED trace
       ELSE \E idle \in BOOLEAN :
            /\ trace' = Append(trace, Ev("get_is_player_idle",
                                         IF idle THEN "True" ELSE "False", 0))
            /\ state' = IF idle THEN "post-craft" ELSE state
    /\ pc' = "sleep"
    /\ UNCHANGED << cfg, iter_state, last_craft_item_index, start_time, end_time,
                    last_item_id, target_seen, now, mouse, primv, retryv, hostv >>

\* lines 185-193
craft ==
    /\ pc = "branch"
    /\ state = "craft"
    /\ IF crafting_complete(last_item_id)
       THEN /\ state' = "post-craft"
            /\ UNCHANGED trace
       ELSE \E idle \in BOOLEAN :
            /\ trace' = Append(trace, Ev("get_is_player_idle",
                                         IF idle THEN "True" ELSE "False", 0))
            /\ state' = IF idle THEN "pre-craft" ELSE state
    /\ pc' = "sleep"
    /\ UNCHANGED << cfg, iter_state, last_craft_item_index, start_time, end_time,
                    last_item_id, target_seen, now, mouse, primv, retryv, hostv >>

\* lines 194-196: the post-craft branch up to the __click_on_bank call
post_craft ==
    /\ pc = "branch"
    /\ state = "post-craft"
    /\ trace' = Append(trace, Ev("click_on_bank", "", 0))
    /\ prim_mark' = Len(trace) + 1
    /\ StartRetry("bank_find")
    /\ UNCHANGED << cfg, loopv, now, mouse, found_obj, prim_ret, mat_i, hostv >>

\* lines 196-197: back from __click_on_bank
bank_ret ==
    /\ pc = "bank_ret"
    /\ IF primitive_failed(prim_ret)
       THEN logout(trace, "settle")
       ELSE /\ pc' = "settle"
            /\ UNCHANGED << trace, logout_calls, stop_calls >>
    /\ UNCHANGED << cfg, loopv, now, mouse, primv, retryv, progress >>

\* lines 198-200: wait for the walk to the bank, then the bank phase
bank_settle ==
    /\ pc = "settle"
    /\ now' \in AfterSleep(settle_delay)
    /\ state' = "bank"
    /\ pc' = "sleep"
    /\ trace' = Append(trace, Ev("sleep", "", settle_delay))
    /\ UNCHANGED << cfg, iter_state, last_craft_item_index, start_time, end_time,
                    last_item_id, target_seen, mouse, primv, retryv, hostv >>

\* a variant that clicks the designated slot
deposit_target_designated == << "inventory_slots", last_craft_item_index >>

\* line 205: self.win.inventory_slots[4]
deposit_target == << "inventory_slots", deposit_slot >>

\* lines 201-207: deposit
bank_deposit ==
    /\ pc = "branch"
    /\ state = "bank"
    /\ mouse' = deposit_target
    /\ trace' = trace \o << Ev("click", deposit_target[1], deposit_target[2]),
                            Ev("sleep", "", 1) >>
    /\ now' \in AfterSleep(1)
    /\ mat_i' = 1
    /\ pc' = "withdraw"
    /\ UNCHANGED << cfg, loopv, found_obj, prim_ret, prim_mark, retryv, hostv >>

\* lines 210-219: one pass of the withdrawal loop; the image search finds
\* the material's icon or does not
bank_withdraw ==
    /\ pc = "withdraw"
    /\ mat_i <= Len(craft_item[1].materials)
    /\ LET material == craft_item[1].materials[mat_i] IN
       \E mat \in BOOLEAN :
         IF mat
         THEN /\ mouse' = << "material", material.id >>
              /\ trace' = trace \o << Ev("search_img", "True", material.id),
                                      Ev("click", "material", material.id),
                                      Ev("sleep", "", 1) >>
              /\ now' \in AfterSleep(1)
              /\ mat_i' = mat_i + 1
              /\ UNCHANGED << pc, logout_calls, stop_calls >>
         ELSE /\ logout(Append(trace, Ev("search_img", "False", material.id)),
                         "withdraw")
              /\ mat_i' = IF stop_halts THEN mat_i ELSE mat_i + 1
              /\ UNCHANGED << mouse, now >>
    /\ UNCHANGED << cfg, loopv, found_obj, prim_ret, prim_mark, retryv, progress >>

\* a variant of lines 222-226 that leaves the phase at bank
bank_exit_stays ==
    /\ pc = "withdraw"
    /\ mat_i > Len(craft_item[1].materials)
    /\ mouse' = close_bank_btn
    /\ trace' = exit_bank(trace)
    /\ mat_i' = 0
    /\ pc' = "sleep"
    /\ UNCHANGED << cfg, loopv, now, found_obj, prim_ret, prim_mark, retryv,
                    hostv >>

\* lines 222-226: exit the bank UI, back to pre-craft
bank_exit ==
    /\ pc = "withdraw"
    /\ mat_i > Len(craft_item[1].materials)
    /\ mouse' = close_bank_btn
    /\ trace' = exit_bank(trace)
    /\ state' = "pre-craft"
    /\ mat_i' = 0
    /\ pc' = "sleep"
    /\ UNCHANGED << cfg, iter_state, last_craft_item_index, start_time, end_time,
                    last_item_id, target_seen, now, found_obj, prim_ret, prim_mark, retryv,
                    hostv >>

\* a variant of lines 227-231 that sleeps but does not report progress
sleep_without_progress ==
    /\ pc = "sleep"
    /\ now' \in AfterSleep(1)
    /\ trace' = Append(trace, Ev("sleep", "", 1))
    /\ pc' = "loop"
    /\ UNCHANGED << cfg, loopv, mouse, primv, retryv, hostv >>

\* lines 227-231: time.sleep(1), then
\* update_progress((time.time() - start_time) / end_time)
sleep_progress ==
    /\ pc = "sleep"
    /\ now' \in AfterSleep(1)
    /\ progress' = << now' - start_time, end_time >>
    /\ trace' = trace \o << Ev("sleep", "", 1), Ev("update_progress", "", 0) >>
    /\ pc' = "loop"
    /\ UNCHANGED << cfg, loopv, mouse, primv, retryv, logout_calls, stop_calls >>

\* lines 233-235: update_progress(1), __logout("Finished."), stop()
main_loop_finish ==
    /\ pc = "finish"
    /\ progress' = << 1, 1 >>
    /\ LET tr == << Ev("update_progress", "", 1) >> IN
       IF stop_halts
       THEN logout(tr, "stopped")
       ELSE /\ logout_calls' = logout_calls + 1
            /\ stop_calls' = stop_calls + 2
            /\ trace' = tr \o << Ev("logout", "", 0), Ev("stop", "", 0),
                                 Ev("stop", "", 0) >>
            /\ pc' = "stopped"
    /\ UNCHANGED << cfg, loopv, now, mouse, primv, retryv >>

(* --------------------------------------------------------- specification *)
\* main_loop has not been called
not_started ==
    /\ pc = "start"
    /\ state = ""
    /\ iter_state = ""
    /\ last_craft_item_index = 0
    /\ now = 0
    /\ start_time = 0
    /\ end_time = 0
    /\ last_item_id = None
    /\ target_seen = FALSE
    /\ mouse = << "", 0 >>
    /\ found_obj = "None"
    /\ prim_ret = FALSE
    /\ prim_mark = 0
    /\ mat_i = 0
    /\ r_start = 0
    /\ r_log = << >>
    /\ r_ret = "None"
    /\ trace = << >>
    /\ logout_calls = 0
    /\ stop_calls = 0
    /\ progress = << 0, 1 >>

\* the bot after save_options({"running_time": t, "craft_item": n}) with a
\* name of the dropdown
Init ==
    /\ \E t \in RunningTimes : \E n \in CraftItemNames :
        /\ options = << << "running_time", t >>, << "craft_item", n >> >>
        /\ running_time = t
        /\ craft_item = init_craft_item(n)
    /\ options_set = TRUE
    /\ save_result = "return"
    /\ not_started

Next ==
    \/ main_loop_start
    \/ main_loop_while
    \/ get_inv
    \/ pre_craft
    \/ click_on_furnace
    \/ furnace_ret
    \/ begin_crafting
    \/ craft_ret
    \/ craft
    \/ post_craft
    \/ click_on_bank
    \/ bank_ret
    \/ bank_settle
    \/ bank_deposit
    \/ bank_withdraw
    \/ bank_exit
    \/ sleep_progress
    \/ retry
    \/ main_loop_finish

Spec == Init /\ [][Next]_vars

\* the controller is one thread that runs until it stops: every sleep ends
\* and every external call returns, so a step that is possible is taken
FairSpec == Spec /\ WF_vars(Next)

(* ------------------------------------- specification of the option dialog *)
\* lines 82-91: __init__
SaveInit ==
    /\ running_time = default_running_time
    /\ craft_item = None
    /\ options_set = FALSE
    /\ options = << >>
    /\ save_result = ""
    /\ not_started

\* lines 103-122: one call of save_options, with any dict
save_options ==
    /\ pc = "start"
    /\ \E opts \in OptionDicts :
        LET s == save_options_from(opts, 1,
                    [running_time |-> running_time, craft_item |-> craft_item,
                     options_set |-> options_set, save_result |-> ""]) IN
        /\ running_time' = s.running_time
        /\ craft_item' = s.craft_item
        /\ options_set' = s.options_set
        /\ save_result' = s.save_result
        /\ options' = opts
    /\ UNCHANGED << pc, loopv, now, mouse, primv, retryv, trace, hostv >>

SaveNext == save_options

SaveSpec == SaveInit /\ [][SaveNext]_vars



(* ============================================================ properties *)
GetInvEv == Ev("get_inv", "", 0)
LogoutEv == Ev("logout", "", 0)
StopEv == Ev("stop", "", 0)
ReturnFalseEv == Ev("return", "False", 0)
\* an iteration of the loop is running or has just ended
InIteration == Len(trace) > 0 /\ trace[1] = GetInvEv
\* the events of a sequence after its i-th
After(tr, i) == SubSeq(tr, i + 1, Len(tr))
\* the click events of a sequence of events
Clicks(tr) == { i \in DOMAIN tr : tr[i][1] = "click" }
\* the calls of action primitives in a sequence of events
PrimitiveNames == {"click_on_furnace", "begin_crafting", "click_on_bank", "exit_bank"}
PrimitiveCalls(tr) == { i \in DOMAIN tr : tr[i][1] \in PrimitiveNames }
\* the primitive that was running at the i-th event
RunningPrimitive(tr, i) ==
    LET S == { j \in PrimitiveCalls(tr) : j < i }
    IN  IF S = {} THEN "" ELSE tr[CHOOSE j \in S : \A k \in S : k <= j][1]
\* the controller has stopped: no step of it is possible
StoppedIsFinal == pc = "stopped" => ~ENABLED Next
\* the item id the designated slot is compared with
TargetId == craft_item[1].item.id

\* C1: whatever the phase, when the snapshot of an iteration holds no record
\* of the designated slot, that iteration logs out and stops the controller,
\* performs no click and no action primitive, leaves the phase as it was, and
\* nothing is executed afterwards.
C1_MissingSlotIsFatal ==
    /\ (InIteration /\ last_item_id = None) =>
        /\ pc = "stopped"
        /\ trace = << GetInvEv, LogoutEv, StopEv >>
        /\ logout_calls = 1
        /\ stop_calls = 1
        /\ state = iter_state
    /\ StoppedIsFinal

\* C1 witness: a bank-phase iteration whose snapshot lacked the designated
\* slot ended in the fatal path.
C1_Witness ==
    /\ pc = "stopped"
    /\ iter_state = "bank"
    /\ state = "bank"
    /\ last_item_id = None
    /\ trace = << GetInvEv, LogoutEv, StopEv >>

\* C2: in a run without a fatal condition the loop is left only once the
\* elapsed time has reached running_time * 60; the controller then reports
\* progress 1, calls logout and then stop, and over the whole run logout was
\* called exactly once and stop exactly once.
C2_FinishShutsDownOnce ==
    /\ pc # "stopped" => logout_calls = 0 /\ stop_calls = 0
    /\ pc = "finish" => now - start_time >= running_time * 60
    /\ (pc = "stopped" /\ ~InIteration) =>
        /\ now - start_time >= running_time * 60
        /\ progress = << 1, 1 >>
        /\ trace = << Ev("update_progress", "", 1), LogoutEv, StopEv >>
        /\ logout_calls = 1
        /\ stop_calls = 1

\* C2 witness: a run that started crafting and ended on the time budget.
C2_Witness ==
    /\ pc = "stopped"
    /\ ~InIteration
    /\ state = "craft"
    /\ logout_calls = 1
    /\ stop_calls = 1

\* the i-th event of the iteration is a fatal condition of C3
FatalAt(i) ==
    \/ /\ trace[i] = ReturnFalseEv
       /\ RunningPrimitive(trace, i) \in {"click_on_furnace", "click_on_bank"}
    \/ /\ trace[i][1] = "search_img"
       /\ trace[i][2] = "False"

\* C3: when __click_on_furnace or __click_on_bank returned False, or a
\* material's image was not found in the bank phase, the controller logs out
\* and stops: no click, no action primitive and no phase change follow.
C3_NoResumptionAfterFatal ==
    /\ \A i \in DOMAIN trace : FatalAt(i) =>
        \/ /\ i = Len(trace)
           /\ pc \in {"furnace_ret", "bank_ret"}
           /\ state = iter_state
        \/ /\ After(trace, i) = << LogoutEv, StopEv >>
           /\ pc = "stopped"
           /\ state = iter_state
    /\ StoppedIsFinal

\* C3 witness: __click_on_furnace failed in pre-craft and the controller
\* stopped without calling __begin_crafting.
C3_Witness ==
    /\ pc = "stopped"
    /\ state = "pre-craft"
    /\ InIteration
    /\ Len(trace) = 6
    /\ trace[2] = Ev("click_on_furnace", "", 0)
    /\ trace[4] = ReturnFalseEv
    /\ trace[5] = LogoutEv

\* C4: in pre-craft, when the designated slot holds the target item id, the
\* iteration moves to post-craft and calls neither __click_on_furnace nor
\* __begin_crafting (it does nothing else at all).
C4_PreCraftCompleteSkipsFurnace ==
    (InIteration /\ iter_state = "pre-craft" /\ last_item_id = Some(TargetId)
        /\ pc # "branch") =>
        /\ pc \in {"loop", "finish"}
        /\ state = "post-craft"
        /\ trace = << GetInvEv >>

\* C4 witness: a pre-craft iteration ended in post-craft having only read
\* the inventory.
C4_Witness ==
    /\ pc = "loop"
    /\ iter_state = "pre-craft"
    /\ state = "post-craft"
    /\ trace = << GetInvEv >>
    /\ last_item_id = Some(TargetId)


\* C5: in craft, with the designated slot present and not holding the target
\* item id, the iteration performs no click and no action primitive and
\* ends in pre-craft when get_is_player_idle reported true, in craft when it
\* reported false.
C5_CraftIdleRestarts ==
    (InIteration /\ iter_state = "craft" /\ last_item_id # None
        /\ last_item_id # Some(TargetId) /\ pc # "branch") =>
        /\ pc \in {"sleep", "loop", "finish"}
        /\ Clicks(trace) = {}
        /\ PrimitiveCalls(trace) = {}
        /\ trace[2][1] = "get_is_player_idle"
        /\ trace[2][2] = "True" => state = "pre-craft"
        /\ trace[2][2] = "False" => state = "craft"

\* the iteration ended with time.sleep(1) and then one update_progress call
\* with elapsed time / budget
EndsWithSleepProgress ==
    /\ Len(trace) >= 3
    /\ trace[Len(trace) - 1] = Ev("sleep", "", 1)
    /\ trace[Len(trace)] = Ev("update_progress", "", 0)
    /\ Cardinality({ i \in DOMAIN trace : trace[i][1] = "update_progress" }) = 1
    /\ progress = << now - start_time, running_time * 60 >>

\* C6 as stated: every iteration that comes back to the loop condition has
\* ended with the 1-second sleep and one update_progress call.
C6_EveryIterationSleepsAndReports ==
    (pc = "loop" /\ InIteration) => EndsWithSleepProgress

\* C6 amended: every iteration that comes back to the loop condition has
\* ended with the 1-second sleep and one update_progress call, except the
\* pre-craft iteration that found the target item id in the designated slot:
\* it continues to the loop condition with neither.
C6_IterationSleepsUnlessPreCraftComplete ==
    (pc = "loop" /\ InIteration) =>
        IF iter_state = "pre-craft" /\ last_item_id = Some(TargetId)
        THEN trace = << GetInvEv >>
        ELSE EndsWithSleepProgress

\* C6 witness: a bank-phase iteration ended with the sleep and the progress
\* report.
C6_Witness ==
    /\ pc = "loop"
    /\ InIteration
    /\ iter_state = "bank"
    /\ state = "pre-craft"
    /\ EndsWithSleepProgress

\* the i-th call of the running __retry was an action_func call that
\* returned a value which is not truthy
FailedProbe(i) == r_log[i] \in {"None", "False"}

\* C7: when action_func returns a truthy value on its K-th call, __retry
\* returns exactly that value and calls nothing after it; otherwise it
\* returns None, and only when at least retry_seconds have passed since it
\* started.
C7_RetryReturnsFirstResult ==
    /\ pc \in RetryPcs =>
        \A i \in DOMAIN r_log : r_log[i] = "on_retry" \/ FailedProbe(i)
    /\ pc \in RetPcs =>
        IF Truthy(r_ret)
        THEN /\ r_log # << >>
             /\ r_log[Len(r_log)] = r_ret
             /\ \A i \in 1..(Len(r_log) - 1) : r_log[i] = "on_retry" \/ FailedProbe(i)
        ELSE /\ r_ret = "None"
             /\ now - r_start >= 15
             /\ \A i \in DOMAIN r_log : r_log[i] = "on_retry" \/ FailedProbe(i)

\* C7 witness: the object search succeeded on its third call.
C7_Witness ==
    /\ pc = "furnace_find_ret"
    /\ r_ret = "o1"
    /\ probes(r_log) = 3
    /\ r_log[Len(r_log)] = "o1"

\* C8 as stated: a __retry call makes fewer on_retry_func calls than
\* action_func calls.
C8_FewerRetriesThanProbes ==
    pc \in RetPcs => retries(r_log) < probes(r_log)

\* C8 amended: on_retry_func is called after every unsuccessful action_func
\* call and only then, the last one before the timeout included: a __retry
\* call that returns a value made one on_retry_func call less than
\* action_func calls, one that times out made as many.
C8_RetryAfterEveryFailedProbe ==
    /\ \A i \in DOMAIN r_log : r_log[i] = "on_retry" => i > 1 /\ FailedProbe(i - 1)
    /\ pc \in FindPcs \cup {"furnace_find_ret", "bank_find_ret"} =>
        \A i \in DOMAIN r_log : FailedProbe(i) =>
            i < Len(r_log) /\ r_log[i + 1] = "on_retry"
    /\ pc \in {"furnace_find_ret", "bank_find_ret"} =>
        IF Truthy(r_ret)
        THEN retries(r_log) = probes(r_log) - 1
        ELSE retries(r_log) = probes(r_log) /\ probes(r_log) > 0
    /\ pc \in HoverPcs \cup {"furnace_hover_ret", "bank_hover_ret", "craft_hover_ret"} =>
        retries(r_log) = 0

\* C8 witness: the bank search timed out; the camera was rotated after the
\* last search as well.
C8_Witness ==
    /\ pc = "bank_find_ret"
    /\ r_ret = "None"
    /\ r_log # << >>
    /\ r_log[Len(r_log)] = "on_retry"
    /\ retries(r_log) = probes(r_log)

\* the events of the action primitive that has just returned
PrimitiveEvents == SubSeq(trace, prim_mark, Len(trace))

\* C9: __click_on_furnace, __click_on_bank and __begin_crafting return True
\* exactly when they made exactly one click; that click is on the located
\* object and directly follows the successful return of the hover-text
\* retry; a call that returns False made no click.
C9_PrimitiveClicksOnceOnSuccess ==
    pc \in {"furnace_ret", "bank_ret", "craft_ret"} =>
        LET seg == PrimitiveEvents IN
        /\ seg[1][1] \in PrimitiveNames
        /\ prim_ret <=> Cardinality(Clicks(seg)) = 1
        /\ ~prim_ret => Clicks(seg) = {}
        /\ seg[Len(seg)] = Ev("return", IF prim_ret THEN "True" ELSE "False", 0)
        /\ \A i \in Clicks(seg) :
            /\ i > 1
            /\ seg[i - 1] = Ev("retry_ret", "True", 0)
            /\ seg[i][2] \in Objects

\* C9 witness: __begin_crafting returned True after its one click.
C9_Witness ==
    /\ pc = "craft_ret"
    /\ prim_ret
    /\ Cardinality(Clicks(PrimitiveEvents)) = 1

\* the clicks of the iteration that were made on an inventory slot
SlotClicks == { i \in Clicks(trace) : trace[i][2] = "inventory_slots" }

\* C10 as stated: the deposit click is made on the designated slot.
C10_DepositOnDesignatedSlot ==
    \A i \in SlotClicks : trace[i][3] = last_craft_item_index

\* C10 amended: the deposit click of the bank phase is made on the fixed
\* inventory slot 4 for both recipes, which is not the designated slot
\* (26 or 12) looked up in the snapshot.
C10_DepositOnSlotFour ==
    /\ \A i \in SlotClicks : trace[i][3] = 4 /\ trace[i][3] # last_craft_item_index
    /\ pc = "withdraw" => SlotClicks = {2}

\* C10 witness: the deposit click of a bank phase of the two-material recipe.
C10_Witness ==
    /\ pc = "withdraw"
    /\ trace[2] = Ev("click", "inventory_slots", 4)
    /\ last_craft_item_index = 12

\* C11: the designated slot computed before the loop is (28 - 1) integer-
\* divided by the number of materials of the recipe, minus 1: 26 for the
\* one-material recipe, 12 for the two-material recipe, and it keeps that
\* value in every state after the loop has started.
C11_DesignatedSlotFormula ==
    pc # "start" =>
        LET n == Len(craft_item[1].materials) IN
        /\ last_craft_item_index = ((28 - 1) \div n) - 1
        /\ n = 1 => last_craft_item_index = 26
        /\ n = 2 => last_craft_item_index = 12
        /\ n \in {1, 2}

\* C11 witness: a run of the two-material recipe reached its bank phase with
\* the designated slot still 12.
C11_Witness ==
    /\ pc = "withdraw"
    /\ Len(craft_item[1].materials) = 2
    /\ last_craft_item_index = 12

\* the recipes of the catalog
Catalog == { init_craft_item(n)[1] : n \in CraftItemNames }
\* save_options has been called
Saved == save_result # ""

\* C12: after any sequence of save_options calls, whenever options_set is
\* true, running_time holds the value the last call supplied (when it
\* supplied one) and craft_item is a recipe of the catalog, not None, with a
\* non-empty materials list.
C12_ReadyMeansPopulated ==
    options_set =>
        /\ "running_time" \in Keys(options) =>
                running_time = Value(options, "running_time")
        /\ craft_item # None
        /\ craft_item[1] \in Catalog
        /\ Len(craft_item[1].materials) > 0

\* C13: a save_options call whose dict holds a key other than "running_time"
\* and "craft_item" leaves options_set false; a call whose dict holds
\* exactly the two known keys, with a craft item name of the catalog, leaves
\* it true.
C13_UnknownKeyClearsReady ==
    Saved =>
        /\ ~(Keys(options) \subseteq KnownKeys) =>
                ~options_set /\ save_result = "unknown"
        /\ (Keys(options) = KnownKeys
                /\ Value(options, "craft_item") \in CraftItemNames) =>
                options_set /\ save_result = "return"

\* C13 witness: a call that supplied both known options with valid values
\* and then an unknown one ended with the flag false.
C13_Witness ==
    /\ Len(options) = 3
    /\ options[3][1] = "unknown_option"
    /\ running_time = Value(options, "running_time")
    /\ craft_item # None
    /\ ~options_set

\* C14: a save_options call whose dict lacks "running_time" or "craft_item"
\* leaves options_set false.
C14_MissingOptionClearsReady ==
    (Saved /\ ~(KnownKeys \subseteq Keys(options))) => ~options_set

\* the phases of main_loop and the transitions of the phase table
Phases == {"pre-craft", "craft", "post-craft", "bank"}
PhaseTable ==
    { << "pre-craft", "pre-craft" >>, << "pre-craft", "craft" >>,
      << "pre-craft", "post-craft" >>,
      << "craft", "craft" >>, << "craft", "pre-craft" >>,
      << "craft", "post-craft" >>,
      << "post-craft", "bank" >>,
      << "bank", "pre-craft" >> }

\* C15: in every state of main_loop the phase is one of pre-craft, craft,
\* post-craft, bank; it is pre-craft when the loop is first reached; within
\* an iteration it is the phase the iteration started in or a phase the table
\* allows after it, and an iteration that comes back to the loop condition
\* has followed a transition of the table.
C15_PhaseFollowsTable ==
    pc # "start" =>
        /\ state \in Phases
        /\ iter_state \in Phases
        /\ state # iter_state => << iter_state, state >> \in PhaseTable
        /\ (pc = "loop" /\ InIteration) => << iter_state, state >> \in PhaseTable
        /\ (pc = "loop" /\ ~InIteration) => state = "pre-craft"

\* C15 witness: a craft iteration went back to pre-craft.
C15_Witness ==
    /\ pc = "loop"
    /\ InIteration
    /\ iter_state = "craft"
    /\ state = "pre-craft"

\* C16: every fraction main_loop passes to update_progress, progress[1] /
\* progress[2], lies within 0..1, and the last one, reported when the loop
\* was left, is 1. (Elapsed time never decreases, so the reported fractions
\* are non-decreasing up to the last one, and the last one, 1, is not below
\* its predecessor exactly when no fraction exceeded 1.)
C16_ProgressWithinUnit ==
    /\ progress[2] > 0
    /\ 0 <= progress[1]
    /\ progress[1] <= progress[2]
    /\ (pc = "stopped" /\ ~InIteration) => progress = << 1, 1 >>

\* the shutdown step of lines 233-234 was the last thing the run did
ShutDown ==
    /\ pc = "stopped"
    /\ trace = << Ev("update_progress", "", 1), LogoutEv, StopEv >>

ClickFurnaceEv == Ev("click_on_furnace", "", 0)
BeginCraftingEv == Ev("begin_crafting", "", 0)
ReturnTrueEv == Ev("return", "True", 0)
\* the value the last action primitive of a sequence of events returned
LastReturn(tr) ==
    LET S == { i \in DOMAIN tr : tr[i][1] = "return" }
    IN  IF S = {} THEN "" ELSE tr[CHOOSE i \in S : \A j \in S : j <= i][2]
\* __begin_crafting was called in the iteration and returned True
CraftingBegun ==
    /\ \E i \in DOMAIN trace : trace[i] = BeginCraftingEv
    /\ RunningPrimitive(trace, Len(trace) + 1) = "begin_crafting"
    /\ LastReturn(trace) = "True"

\* the iteration is a pre-craft one whose snapshot satisfies `Cond` of the
\* designated slot's item id, and it is past the snapshot check
PreCraftNotTarget(Cond) ==
    /\ InIteration
    /\ iter_state = "pre-craft"
    /\ last_item_id # None
    /\ last_item_id # Some(TargetId)
    /\ Cond
    /\ pc \notin {"get_inv", "branch"}

\* what C18 says of such an iteration
BeginCraftingRetried ==
    \* __click_on_furnace is invoked first, __begin_crafting only after it
    \* returned True
    /\ Len(trace) >= 2
    /\ trace[2] = ClickFurnaceEv
    /\ \A i \in DOMAIN trace : trace[i] = BeginCraftingEv =>
            /\ i > 3
            /\ trace[i - 1] = ReturnTrueEv
            /\ RunningPrimitive(trace, i - 1) = "click_on_furnace"
    \* the phase is craft after __begin_crafting returned True, and stays
    \* pre-craft otherwise
    /\ pc \in {"sleep", "loop", "finish"} =>
            state = IF CraftingBegun THEN "craft" ELSE "pre-craft"
    /\ pc \notin {"sleep", "loop", "finish"} => state = "pre-craft"
    \* __begin_crafting looks the button up once and, when it is absent,
    \* returns False with no hover retry, no pointer move and no click
    /\ pc = "craft_ret" =>
            LET seg == PrimitiveEvents IN
            /\ seg[1] = BeginCraftingEv
            /\ Cardinality({ i \in DOMAIN seg : seg[i][1] = "retry_ret" }) <= 1
            /\ (\A i \in DOMAIN seg : seg[i][1] # "retry_ret") =>
                    /\ seg = << BeginCraftingEv, ReturnFalseEv >>
                    /\ mouse = << trace[prim_mark - 2][2], trace[prim_mark - 2][3] >>

\* C18: in a pre-craft iteration whose snapshot holds the designated slot
\* with an item id other than the target's, __click_on_furnace is invoked
\* before __begin_crafting; when __begin_crafting fails the phase remains
\* pre-craft, so that the next such iteration clicks the furnace again; the
\* phase becomes craft only after __click_on_furnace and then
\* __begin_crafting returned True; __begin_crafting makes one lookup and on
\* absence fails without moving the pointer or clicking.
C18_BeginCraftingRetriedNextTick ==
    /\ PreCraftNotTarget(TRUE) => BeginCraftingRetried
    /\ (InIteration /\ state = "craft" /\ iter_state # "craft") =>
            iter_state = "pre-craft" /\ CraftingBegun

\* C18 for the snapshots whose designated slot holds a non-zero item id
C18_NonZeroId ==
    /\ PreCraftNotTarget(last_item_id # Some(0)) => BeginCraftingRetried
    /\ (InIteration /\ state = "craft" /\ iter_state # "craft") =>
            iter_state = "pre-craft" /\ CraftingBegun

\* the events of the iteration that are bank-phase actions: the deposit
\* click, a material click, __exit_bank and its click
BankActions ==
    { i \in DOMAIN trace :
        \/ trace[i][1] = "exit_bank"
        \/ /\ trace[i][1] = "click"
           /\ trace[i][2] \in {"inventory_slots", "material", close_bank_btn[1]} }
\* the material clicks of the iteration, in order
MaterialClicks ==
    LET IsMat(e) == e[1] = "click" /\ e[2] = "material"
    IN  SelectSeq(trace, IsMat)

\* C19: bank-phase actions are performed only in an iteration that starts
\* in phase bank, the material clicks in recipe order; the phase becomes bank
\* only in a post-craft iteration that invoked __click_on_bank, and
\* post-craft only in an iteration whose snapshot showed the target item id
\* in the designated slot; whenever a bank-phase iteration is about to
\* start, such a snapshot was taken since the previous one; __click_on_furnace
\* and __begin_crafting are invoked only in pre-craft iterations.
C19_BankOnlyAfterTargetSeen ==
    InIteration =>
        /\ BankActions # {} => iter_state = "bank"
        /\ \A k \in DOMAIN MaterialClicks : \E m \in DOMAIN craft_item[1].materials :
                /\ MaterialClicks[k][3] = craft_item[1].materials[m].id
                /\ \A j \in 1..(k - 1) : \E n \in 1..(m - 1) :
                        MaterialClicks[j][3] = craft_item[1].materials[n].id
        /\ (\E i \in DOMAIN trace : trace[i][1] = "exit_bank"
                /\ \A j \in 1..i : trace[j][1] = "search_img" => trace[j][2] = "True")
                => Len(MaterialClicks) = Len(craft_item[1].materials)
        /\ (state = "bank" /\ iter_state # "bank") =>
                /\ iter_state = "post-craft"
                /\ \E i \in DOMAIN trace : trace[i] = Ev("click_on_bank", "", 0)
        /\ (state = "post-craft" /\ iter_state # "post-craft") =>
                /\ iter_state \in {"pre-craft", "craft"}
                /\ last_item_id = Some(TargetId)
        /\ iter_state = "post-craft" => target_seen
        /\ state = "bank" => (target_seen \/ iter_state = "bank")
        /\ (pc = "loop" /\ state = "bank") => target_seen
        /\ (\E i \in DOMAIN trace : trace[i] \in {ClickFurnaceEv, BeginCraftingEv})
                => iter_state = "pre-craft"

\* C19 witness: a bank-phase iteration of the two-material recipe withdrew
\* both materials and left the bank.
C19_Witness ==
    /\ pc = "sleep"
    /\ iter_state = "bank"
    /\ state = "pre-craft"
    /\ Len(MaterialClicks) = 2
    /\ trace[Len(trace)] = Ev("click", close_bank_btn[1], close_bank_btn[2])

====
